---- MODULE Spec2Model ----
(***************************************************************************)
(* Model of jaxfg/core/_factors.py: the factor base class (FactorBase),    *)
(* its PyTree decomposition (flatten / unflatten), its grouping key        *)
(* (group_key), the forward-mode local Jacobian (compute_error_jacobians)  *)
(* and the concrete LinearFactor.                                          *)
(*                                                                         *)
(* Python objects are records of one shape (Obj) so that any two of them   *)
(* can be compared; a dict is the sequence of its items in insertion       *)
(* order; a raised exception is a result whose status is "raise".          *)
(***************************************************************************)
EXTENDS Integers, Sequences, FiniteSets, TLC

\* ------------------------------------------------------------------------
\* Bounds of the model
\* ------------------------------------------------------------------------
\* largest number of variables connected to one factor
MaxVars == 2
\* largest residual length (rows of A_i, length of b) and largest trailing
\* dimension of scale_tril_inv
MaxErrorDim == 2
\* leading batch dimension of a stacked scale_tril_inv
NBatch == 2
\* how many children more than flatten returned a caller may hand to unflatten
MaxExtra == 1

\* ------------------------------------------------------------------------
\* Python objects
\* ------------------------------------------------------------------------
Min(a, b) == IF a <= b THEN a ELSE b

NoArr == [shape |-> <<>>, data |-> <<>>]

Obj(kind, s, n, a, es) == [kind |-> kind, str |-> s, num |-> n, arr |-> a, elems |-> es]

NoneObj == Obj("none", "", 0, NoArr, <<>>)

Str(s) == Obj("str", s, 0, NoArr, <<>>)

PyInt(n) == Obj("int", "", n, NoArr, <<>>)

\* a numpy / jax array: its shape and its entries in row-major order
NdArray(a) == Obj("ndarray", "", 0, a, <<>>)

Tuple(es) == Obj("tuple", "", 0, NoArr, es)

\* a variable class (type(variable))
Type(t) == Obj("type", t, 0, NoArr, <<>>)

\* a variable instance: its class and its identity; V() makes identity 0
Variable(t, id) == Obj("variable", t, id, NoArr, <<>>)

\* ------------------------------------------------------------------------
\* dict: items in insertion order, keys unique
\* ------------------------------------------------------------------------
Keys(d) == [i \in 1..Len(d) |-> d[i].k]

Values(d) == [i \in 1..Len(d) |-> d[i].v]

HasKey(d, k) == \E i \in 1..Len(d) : d[i].k = k

Get(d, k) == IF HasKey(d, k) THEN d[CHOOSE i \in 1..Len(d) : d[i].k = k].v ELSE NoneObj

DictDel(d, k) ==
    LET Keep(e) == e.k # k IN SelectSeq(d, Keep)

\* d[k] = v
DictSet(d, k, v) ==
    IF HasKey(d, k)
    THEN [i \in 1..Len(d) |-> IF d[i].k = k THEN [k |-> k, v |-> v] ELSE d[i]]
    ELSE Append(d, [k |-> k, v |-> v])

\* dict(zip(ks, vs)): zip stops at the shorter argument, a repeated key keeps
\* its first position and its last value
DictZip(ks, vs) ==
    LET n == Min(Len(ks), Len(vs))
        acc[i \in 0..n] == IF i = 0 THEN <<>> ELSE DictSet(acc[i - 1], ks[i], vs[i])
    IN acc[n]

\* ------------------------------------------------------------------------
\* Arrays
\* ------------------------------------------------------------------------
Array(shape, data) == [shape |-> shape, data |-> data]

TrailingDim(a) == a.shape[Len(a.shape)]

zeros_like(a) == Array(a.shape, [p \in 1..Len(a.data) |-> 0])

zeros(n) == Array(<<n>>, [p \in 1..n |-> 0])

\* elementwise a + b and a - b of arrays of one shape
Add(a, b) == Array(a.shape, [p \in 1..Len(a.data) |-> a.data[p] + b.data[p]])

Sub(a, b) == Array(a.shape, [p \in 1..Len(a.data) |-> a.data[p] - b.data[p]])

\* A @ x for a matrix A of shape (m, n) and a vector x of shape (n,)
Conformable(A, x) == Len(A.shape) = 2 /\ Len(x.shape) = 1 /\ A.shape[2] = x.shape[1]

MatVec(A, x) ==
    LET m == A.shape[1]
        n == A.shape[2]
        row(r) == LET s[c \in 0..n] == IF c = 0 THEN 0
                                        ELSE s[c - 1] + A.data[(r - 1) * n + c] * x.data[c]
                  IN s[n]
    IN Array(<<m>>, [r \in 1..m |-> row(r)])

\* ------------------------------------------------------------------------
\* Variable capability (jaxfg/core/_variables.py, consumed through
\* get_parameter_dim, get_local_parameter_dim, add_local and V())
\* ------------------------------------------------------------------------
VariableTypes == {"R1", "R2", "P2"}

\* the parameter dimension is a property of the variable class
get_parameter_dim(v) == IF v.str = "R1" THEN 1 ELSE 2

\* trivial tangent space: the local parameterization is the parameterization
get_local_parameter_dim(v) == get_parameter_dim(v)

add_local(variable, x, local_delta) == Add(x, local_delta)

\* ------------------------------------------------------------------------
\* Factor classes: dataclass fields in definition order, and _static_fields.
\* LinearFactor is the concrete class of the source; the other three are
\* subclasses a user may declare, differing in _static_fields.
\* ------------------------------------------------------------------------
\* init fields; _static_fields itself has init=False and a class-level
\* default, so it is neither a constructor argument nor in vars(v)
Fields(cls) ==
    CASE cls = "LinearFactor" -> <<"variables", "scale_tril_inv", "A_matrices", "b">>
      [] cls = "ConfigFactor" -> <<"variables", "scale_tril_inv", "config">>
      [] cls = "VariableTypesFactor" -> <<"variables", "scale_tril_inv", "variabletypes">>
      [] OTHER -> <<"variables", "scale_tril_inv">>

_static_fields(cls) ==
    CASE cls = "LinearFactor" -> {}
      [] cls = "ConfigFactor" -> {"config"}
      [] cls = "VariableTypesFactor" -> {"variabletypes"}
      [] OTHER -> {"variables"}

Ok(x) == [status |-> "ok", exc |-> "", value |-> x]

Raise(e) == [status |-> "raise", exc |-> e, value |-> NoneObj]

NoFactor == [cls |-> "", dict |-> <<>>]

\* cls(**kwargs1, **kwargs2): the generated dataclass __init__ binds every
\* field, in field order; a repeated, non-string, unknown or missing keyword
\* is a TypeError
Construct(cls, kwargs1, kwargs2) ==
    LET ks == Keys(kwargs1) \o Keys(kwargs2)
        fs == Fields(cls)
        all == kwargs1 \o kwargs2
    IN IF \/ \E i, j \in 1..Len(ks) : i # j /\ ks[i] = ks[j]
          \/ \E i \in 1..Len(ks) : ks[i].kind # "str"
          \/ {ks[i].str : i \in 1..Len(ks)} # {fs[i] : i \in 1..Len(fs)}
       THEN [status |-> "raise", exc |-> "TypeError", factor |-> NoFactor]
       ELSE [status |-> "ok", exc |-> "",
             factor |-> [cls |-> cls,
                         dict |-> [i \in 1..Len(fs) |->
                                     [k |-> Str(fs[i]), v |-> Get(all, Str(fs[i]))]]]]

\* attribute access on a factor
Attr(self, name) == Get(self.dict, Str(name))

\* ------------------------------------------------------------------------
\* FactorBase
\* ------------------------------------------------------------------------
\* the leading dimension instead of the trailing one
error_dim_leading(self) == Attr(self, "scale_tril_inv").arr.shape[1]

error_dim(self) == TrailingDim(Attr(self, "scale_tril_inv").arr)

\* flatten with the pop applied to vars(v) as well
flatten_popping_source(cls, v) ==
    LET v_dict == v.dict
        NotStatic(e) == e.k.str \notin _static_fields(cls)
        array_data == SelectSeq(v_dict, NotStatic)
        NotArray(e) == ~HasKey(array_data, e.k)
        variables == Attr(v, "variables").elems
        aux_dict == DictSet(SelectSeq(v_dict, NotArray), Str("variabletypes"),
                            Tuple([i \in 1..Len(variables) |-> Type(variables[i].str)]))
        popped == DictDel(array_data, Str("variables"))
    IN IF ~HasKey(array_data, Str("variables"))
       THEN [status |-> "raise", exc |-> "KeyError", children |-> <<>>, treedef |-> <<>>,
             v_dict |-> v_dict]
       ELSE [status |-> "ok", exc |-> "", children |-> Values(popped),
             treedef |-> Keys(popped) \o Keys(aux_dict) \o Values(aux_dict),
             v_dict |-> DictDel(v_dict, Str("variables"))]

\* flatten: the children, the treedef, and the factor's __dict__ (v_dict is
\* vars(v) itself, not a copy) as the call leaves it.  array_data and
\* aux_dict are new dicts, so the pop takes nothing from v_dict.
flatten(cls, v) ==
    LET v_dict == v.dict
        NotStatic(e) == e.k.str \notin _static_fields(cls)
        array_data == SelectSeq(v_dict, NotStatic)
        NotArray(e) == ~HasKey(array_data, e.k)
        variables == Attr(v, "variables").elems
        aux_dict == DictSet(SelectSeq(v_dict, NotArray), Str("variabletypes"),
                            Tuple([i \in 1..Len(variables) |-> Type(variables[i].str)]))
        popped == DictDel(array_data, Str("variables"))
    IN IF ~HasKey(array_data, Str("variables"))
       THEN [status |-> "raise", exc |-> "KeyError", children |-> <<>>, treedef |-> <<>>,
             v_dict |-> v_dict]
       ELSE [status |-> "ok", exc |-> "", children |-> Values(popped),
             treedef |-> Keys(popped) \o Keys(aux_dict) \o Values(aux_dict),
             v_dict |-> v_dict]

\* what iterating an object yields: a tuple yields its elements, an empty str
\* nothing, a non-empty str its characters; an int is not iterable
Iterable(o) == o.kind \in {"tuple", "str", "ndarray"}

Iterate(o) ==
    IF o.kind = "tuple" THEN o.elems
    ELSE IF o.kind = "str" THEN (IF o.str = "" THEN <<>> ELSE <<Str(o.str)>>)
    ELSE IF o.kind = "ndarray" THEN [p \in 1..Len(o.arr.data) |-> PyInt(o.arr.data[p])]
    ELSE <<>>

\* the placeholders in reverse order
PlaceholdersReversed(types) ==
    Tuple([i \in 1..Len(types) |-> Variable(types[Len(types) + 1 - i].str, 0)])

\* tuple(V() for V in types): one new variable per class, in order
Placeholders(types) == Tuple([i \in 1..Len(types) |-> Variable(types[i].str, 0)])

unflatten(cls, treedef, children) ==
    LET array_keys == SubSeq(treedef, 1, Min(Len(children), Len(treedef)))
        aux == SubSeq(treedef, Len(children) + 1, Len(treedef))
        half == Len(aux) \div 2
        aux_keys == SubSeq(aux, 1, half)
        aux_values == SubSeq(aux, half + 1, Len(aux))
        aux_dict == DictZip(aux_keys, aux_values)
        variabletypes == Get(aux_dict, Str("variabletypes"))
        Vs == Iterate(variabletypes)
    IN IF ~HasKey(aux_dict, Str("variabletypes"))
       THEN [status |-> "raise", exc |-> "KeyError", factor |-> NoFactor]
       ELSE IF ~Iterable(variabletypes) \/ \E i \in 1..Len(Vs) : Vs[i].kind # "type"
       THEN [status |-> "raise", exc |-> "TypeError", factor |-> NoFactor]
       ELSE Construct(cls, DictZip(array_keys, children),
                      DictSet(DictDel(aux_dict, Str("variabletypes")),
                              Str("variables"), Placeholders(Vs)))

group_key(self) ==
    LET variables == Attr(self, "variables").elems
    IN [factor_type |-> self.cls,
        secondary_key |-> << [i \in 1..Len(variables) |->
                                <<variables[i].str, get_parameter_dim(variables[i])>>],
                             error_dim(self) >>]

\* ------------------------------------------------------------------------
\* LinearFactor
\* ------------------------------------------------------------------------
\* compute_error keeping only the last product instead of accumulating
compute_error_last_term(self, variable_values) ==
    LET A_matrices == Attr(self, "A_matrices").elems
        b == Attr(self, "b").arr
        n == Min(Len(A_matrices), Len(variable_values))
        linear_component == IF n = 0 THEN zeros_like(b)
                            ELSE MatVec(A_matrices[n].arr, variable_values[n])
    IN IF \E i \in 1..n : \/ ~Conformable(A_matrices[i].arr, variable_values[i])
                          \/ <<A_matrices[i].arr.shape[1]>> # b.shape
       THEN Raise("TypeError")
       ELSE Ok(Sub(linear_component, b))

\* zip(self.A_matrices, variable_values) stops at the shorter of the two
compute_error(self, variable_values) ==
    LET A_matrices == Attr(self, "A_matrices").elems
        b == Attr(self, "b").arr
        n == Min(Len(A_matrices), Len(variable_values))
        linear_component[i \in 0..n] ==
            IF i = 0 THEN zeros_like(b)
            ELSE Add(linear_component[i - 1], MatVec(A_matrices[i].arr, variable_values[i]))
    IN IF \E i \in 1..n : \/ ~Conformable(A_matrices[i].arr, variable_values[i])
                          \/ <<A_matrices[i].arr.shape[1]>> # b.shape
       THEN Raise("TypeError")
       ELSE Ok(Sub(linear_component[n], b))

\* ------------------------------------------------------------------------
\* Local Jacobian
\* ------------------------------------------------------------------------
\* zip(self.variables, variable_values, local_deltas) stops at the shortest
compute_cost_with_local_delta(self, variable_values, local_deltas) ==
    LET variables == Attr(self, "variables").elems
        n == Min(Len(variables), Min(Len(variable_values), Len(local_deltas)))
        perturbed_values == [i \in 1..n |->
                               add_local(variables[i], variable_values[i], local_deltas[i])]
    IN compute_error(self, perturbed_values)

\* jax.jacfwd(compute_cost_with_local_delta)(primals), the closure having
\* captured self and variable_values.  The function is affine in
\* local_deltas, so its derivative along the c-th basis vector of the i-th
\* input is F(primals + e_ic) - F(primals); block i holds these as columns.
jacfwd(self, variable_values, primals) ==
    LET y0 == compute_cost_with_local_delta(self, variable_values, primals)
        m == Len(y0.value.data)
        Basis(i, c) == [j \in 1..Len(primals) |->
                          Array(primals[j].shape,
                                [p \in 1..Len(primals[j].data) |->
                                   primals[j].data[p] + (IF j = i /\ p = c THEN 1 ELSE 0)])]
        Column(i, c) == compute_cost_with_local_delta(self, variable_values, Basis(i, c)).value
        Block(i) == LET d == Len(primals[i].data)
                    IN Array(<<m, d>>,
                             [p \in 1..m * d |->
                                Column(i, ((p - 1) % d) + 1).data[((p - 1) \div d) + 1]
                                  - y0.value.data[((p - 1) \div d) + 1]])
    IN IF y0.status = "raise" THEN Raise(y0.exc)
       ELSE Ok([i \in 1..Len(primals) |-> Block(i)])

compute_error_jacobians(self, variable_values) ==
    LET variables == Attr(self, "variables").elems
    IN jacfwd(self, variable_values,
              [i \in 1..Len(variables) |-> zeros(get_local_parameter_dim(variables[i]))])

\* ------------------------------------------------------------------------
\* The factors and the inputs of the model
\* ------------------------------------------------------------------------
Eye(m, n) == Array(<<m, n>>, [p \in 1..m * n |-> IF (p - 1) \div n = (p - 1) % n THEN 1 ELSE 0])

Ramp(m, n, i) == Array(<<m, n>>, [p \in 1..m * n |-> p + i])

Tril(e) == Array(<<e, e>>, [p \in 1..e * e |->
                              IF (p - 1) % e > (p - 1) \div e THEN 0
                              ELSE IF (p - 1) % e = (p - 1) \div e THEN 2 ELSE 1])

\* NBatch copies of a stacked along a new leading dimension
Stacked(a) == Array(<<NBatch>> \o a.shape,
                    [p \in 1..NBatch * Len(a.data) |-> a.data[((p - 1) % Len(a.data)) + 1]])

EyeScales == {Eye(e, e) : e \in 1..MaxErrorDim}

Scales == UNION {{Eye(e, e), Tril(e), Stacked(Eye(e, e))} : e \in 1..MaxErrorDim}

VarTuples == UNION {[1..n -> VariableTypes] : n \in 1..MaxVars}

Connected(ts) == Tuple([i \in 1..Len(ts) |-> Variable(ts[i], i)])

Kw(name, value) == [k |-> Str(name), v |-> value]

NewFactor(cls, kwargs) == Construct(cls, kwargs, <<>>).factor

\* a LinearFactor with one m x dim_i matrix per variable and b of length m;
\* scale_tril_inv is whatever the caller passes
NewLinearFactor(ts, m, content, scale) ==
    NewFactor("LinearFactor",
        << Kw("variables", Connected(ts)),
           Kw("scale_tril_inv", NdArray(scale)),
           Kw("A_matrices",
              Tuple([i \in 1..Len(ts) |->
                       NdArray(IF content = "unit"
                               THEN Eye(m, get_parameter_dim(Type(ts[i])))
                               ELSE Ramp(m, get_parameter_dim(Type(ts[i])), i))])),
           Kw("b", NdArray(Array(<<m>>, [r \in 1..m |-> IF content = "unit" THEN 1 ELSE r + 1]))) >>)

\* every residual length and content under the 2x2 identity, and every
\* scale_tril_inv over the residual length 1
LinearFactors ==
    {NewLinearFactor(ts, m, c, Eye(2, 2)) :
        ts \in VarTuples, m \in 1..MaxErrorDim, c \in {"unit", "ramp"}}
    \cup {NewLinearFactor(ts, 1, "unit", s) : ts \in VarTuples, s \in Scales}

\* values of a static field: ints, and a tuple (here the empty one)
StaticValues == {PyInt(0), PyInt(1), Tuple(<<>>)}

ConfigFactors ==
    {NewFactor("ConfigFactor",
        << Kw("variables", Connected(ts)), Kw("scale_tril_inv", NdArray(s)), Kw("config", cfg) >>) :
        ts \in VarTuples, s \in EyeScales, cfg \in StaticValues}

VariableTypesFactors ==
    {NewFactor("VariableTypesFactor",
        << Kw("variables", Connected(ts)), Kw("scale_tril_inv", NdArray(s)),
           Kw("variabletypes", PyInt(0)) >>) :
        ts \in VarTuples, s \in EyeScales}

StaticVariablesFactors ==
    {NewFactor("StaticVariablesFactor",
        << Kw("variables", Connected(ts)), Kw("scale_tril_inv", NdArray(s)) >>) :
        ts \in VarTuples, s \in EyeScales}

Factors == LinearFactors \cup ConfigFactors \cup VariableTypesFactors \cup StaticVariablesFactors

\* variable values handed to compute_error: one per variable, or fewer, or
\* one more; the i-th has the parameter dimension of the i-th variable (1 for
\* the one too many) and the entries 0, ..., or 1, ..., or i, i + 1, ...
ValuePatterns == {"zeros", "ones", "ramp"}

ValueTuples(self) ==
    LET variables == Attr(self, "variables").elems
        Dim(i) == IF i <= Len(variables) THEN get_parameter_dim(variables[i]) ELSE 1
        Entry(c, i, j) == IF c = "zeros" THEN 0 ELSE IF c = "ones" THEN 1 ELSE i + j - 1
    IN {[i \in 1..n |-> Array(<<Dim(i)>>, [j \in 1..Dim(i) |-> Entry(c, i, j)])] :
          n \in 0..Len(variables) + 1, c \in ValuePatterns}

\* a child that flatten did not return
ExtraChild == NdArray(zeros(1))

\* ------------------------------------------------------------------------
\* State
\* ------------------------------------------------------------------------
VARIABLES
    f,      \* the factor: its class and its __dict__
    op,     \* the last call
    args,   \* its arguments
    ret     \* its result

vars == <<f, op, args, ret>>

NoArgs == [values |-> <<>>, children |-> <<>>, treedef |-> <<>>]

Init ==
    /\ f \in Factors
    /\ op = "init"
    /\ args = NoArgs
    /\ ret = [status |-> "none"]

Flatten ==
    LET r == flatten(f.cls, f)
    IN /\ f' = [f EXCEPT !.dict = r.v_dict]
       /\ op' = "flatten"
       /\ args' = NoArgs
       /\ ret' = [status |-> r.status, exc |-> r.exc, children |-> r.children,
                  treedef |-> r.treedef]

\* the caller hands what flatten returned to unflatten, with all the
\* children, with the first c of them, or with more
Unflatten ==
    /\ op = "flatten"
    /\ ret.status = "ok"
    /\ \E c \in 0..Len(ret.children) + MaxExtra :
         LET children == [i \in 1..c |-> IF i <= Len(ret.children) THEN ret.children[i]
                                          ELSE ExtraChild]
         IN /\ args' = [values |-> <<>>, children |-> children, treedef |-> ret.treedef]
            /\ ret' = unflatten(f.cls, ret.treedef, children)
    /\ op' = "unflatten"
    /\ UNCHANGED f

GroupKey ==
    /\ op' = "group_key"
    /\ args' = NoArgs
    /\ ret' = [status |-> "ok", key |-> group_key(f)]
    /\ UNCHANGED f

ComputeError ==
    /\ f.cls = "LinearFactor"
    /\ \E variable_values \in ValueTuples(f) :
         /\ args' = [values |-> variable_values, children |-> <<>>, treedef |-> <<>>]
         /\ ret' = compute_error(f, variable_values)
    /\ op' = "compute_error"
    /\ UNCHANGED f

ComputeErrorJacobians ==
    /\ f.cls = "LinearFactor"
    /\ \E variable_values \in ValueTuples(f) :
         /\ args' = [values |-> variable_values, children |-> <<>>, treedef |-> <<>>]
         /\ ret' = compute_error_jacobians(f, variable_values)
    /\ op' = "compute_error_jacobians"
    /\ UNCHANGED f

Next ==
    \/ Flatten
    \/ Unflatten
    \/ GroupKey
    \/ ComputeError
    \/ ComputeErrorJacobians

Spec == Init /\ [][Next]_vars

\* ------------------------------------------------------------------------
\* Properties
\* ------------------------------------------------------------------------
VariablesOf(x) == Attr(x, "variables").elems

\* the names of the numeric fields of x, in field order: every field that is
\* neither static nor "variables"
NumericNames(x) ==
    LET Numeric(name) == name \notin _static_fields(x.cls) /\ name # "variables"
    IN SelectSeq(Fields(x.cls), Numeric)

NumericValues(x) == [i \in 1..Len(NumericNames(x)) |-> Attr(x, NumericNames(x)[i])]

\* unflatten was handed exactly what flatten returned
RoundTripped == op = "unflatten" /\ args.children = NumericValues(f)

\* C1: unflatten applied to what flatten(f) returned yields a factor of the
\* class of f with every numeric and every static field as in f, and with
\* one new placeholder variable per variable of f, of the same class.
RoundTrip ==
    RoundTripped =>
        /\ ret.status = "ok"
        /\ ret.factor.cls = f.cls
        /\ \A i \in 1..Len(Fields(f.cls)) :
             Fields(f.cls)[i] # "variables" =>
                 Attr(ret.factor, Fields(f.cls)[i]) = Attr(f, Fields(f.cls)[i])
        /\ Len(VariablesOf(ret.factor)) = Len(VariablesOf(f))
        /\ \A i \in 1..Len(VariablesOf(f)) :
             VariablesOf(ret.factor)[i] = Variable(VariablesOf(f)[i].str, 0)

\* same class, same number of variables with the same (class, parameter
\* dimension) at every position, same trailing dimension of scale_tril_inv
SameSignature(x, y) ==
    /\ x.cls = y.cls
    /\ Len(VariablesOf(x)) = Len(VariablesOf(y))
    /\ \A i \in 1..Len(VariablesOf(x)) :
         /\ VariablesOf(x)[i].str = VariablesOf(y)[i].str
         /\ get_parameter_dim(VariablesOf(x)[i]) = get_parameter_dim(VariablesOf(y)[i])
    /\ TrailingDim(Attr(x, "scale_tril_inv").arr) = TrailingDim(Attr(y, "scale_tril_inv").arr)

\* C2: the group key of f equals the group key of another factor y exactly
\* when the two have the same class, the same (class, parameter dimension)
\* of the variables position by position and the same error dimension;
\* numeric contents do not enter.
GroupKeyIff ==
    op = "group_key" => \A y \in Factors : (ret.key = group_key(y)) <=> SameSignature(f, y)

\* group_key was called on a factor that shares its key with a factor of
\* other numeric contents and differs in key from one of another error
\* dimension
GroupKeyCase ==
    /\ op = "group_key"
    /\ Attr(f, "scale_tril_inv").arr = Tril(2)
    /\ \E y \in Factors : /\ Attr(y, "scale_tril_inv").arr = Eye(2, 2)
                          /\ ret.key = group_key(y)
    /\ \E y \in Factors : y.cls = f.cls /\ VariablesOf(y) = VariablesOf(f) /\ ret.key # group_key(y)

\* the shapes of a child: of an array, or of each array of a tuple
ShapesOf(o) == IF o.kind = "ndarray" THEN <<o.arr.shape>>
               ELSE [j \in 1..Len(o.elems) |-> o.elems[j].arr.shape]

\* C3: every factor y with the group key of f flattens to the treedef of f
\* and to as many children, the i-th of the shape of the i-th child of f.
SameKeyStackable ==
    (op = "flatten" /\ ret.status = "ok") =>
        \A y \in Factors :
            group_key(y) = group_key(f) =>
                LET r == flatten(y.cls, y)
                IN /\ r.treedef = ret.treedef
                   /\ Len(r.children) = Len(ret.children)
                   /\ \A i \in 1..Len(ret.children) :
                        ShapesOf(r.children[i]) = ShapesOf(ret.children[i])

\* entry r of A_i . x_i, summed from the last column to the first
RowDot(A, x, r) ==
    LET n == A.shape[2]
        s[c \in 1..n + 1] == IF c = n + 1 THEN 0 ELSE A.data[(r - 1) * n + c] * x.data[c] + s[c + 1]
    IN s[1]

\* entry r of the sum over i of A_i . x_i, from the last variable to the first
RowSum(self, xs, r) ==
    LET A == Attr(self, "A_matrices").elems
        k == Len(xs)
        s[i \in 1..k + 1] == IF i = k + 1 THEN 0 ELSE RowDot(A[i].arr, xs[i], r) + s[i + 1]
    IN s[1]

WithScale(self, scale) ==
    [self EXCEPT !.dict = DictSet(self.dict, Str("scale_tril_inv"), NdArray(scale))]

\* A = [[1,0],[0,1]], b = [1,1], scale_tril_inv the 2x2 identity, one variable
Scenario ==
    /\ f.cls = "LinearFactor"
    /\ Len(VariablesOf(f)) = 1
    /\ Attr(f, "A_matrices").elems = <<NdArray(Array(<<2, 2>>, <<1, 0, 0, 1>>))>>
    /\ Attr(f, "b").arr = Array(<<2>>, <<1, 1>>)
    /\ Attr(f, "scale_tril_inv").arr = Array(<<2, 2>>, <<1, 0, 0, 1>>)

\* C4: compute_error with one value per variable returns the sum over i of
\* A_i . value_i, minus b, whatever scale_tril_inv is; in the scenario it
\* returns [0,0] at [1,1] and [-1,-1] at [0,0].
LinearErrorValue ==
    (op = "compute_error" /\ Len(args.values) = Len(VariablesOf(f))) =>
        /\ ret.status = "ok"
        /\ ret.value.shape = Attr(f, "b").arr.shape
        /\ \A r \in 1..Len(Attr(f, "b").arr.data) :
             ret.value.data[r] = RowSum(f, args.values, r) - Attr(f, "b").arr.data[r]
        /\ \A scale \in Scales : compute_error(WithScale(f, scale), args.values) = ret
        /\ (Scenario /\ args.values = <<Array(<<2>>, <<1, 1>>)>>) => ret.value.data = <<0, 0>>
        /\ (Scenario /\ args.values = <<Array(<<2>>, <<0, 0>>)>>) => ret.value.data = <<-1, -1>>

\* compute_error returned for two variables and values that are not zero
LinearErrorCase ==
    /\ op = "compute_error"
    /\ Len(VariablesOf(f)) = 2
    /\ Len(args.values) = 2
    /\ args.values[1].data[1] = 1
    /\ args.values[2].data[1] = 2
    /\ Attr(f, "A_matrices").elems[1] # Attr(f, "A_matrices").elems[2]
    /\ ret.status = "ok"

\* C5: compute_error_jacobians of a LinearFactor with one value per variable
\* returns one block per variable, the i-th equal to A_i and of shape
\* (error_dim, local parameter dimension of variable i).
LinearJacobianBlocks ==
    (op = "compute_error_jacobians" /\ Len(args.values) = Len(VariablesOf(f))) =>
        /\ ret.status = "ok"
        /\ Len(ret.value) = Len(VariablesOf(f))
        /\ \A i \in 1..Len(VariablesOf(f)) :
             /\ ret.value[i] = Attr(f, "A_matrices").elems[i].arr
             /\ ret.value[i].shape = <<error_dim(f), get_local_parameter_dim(VariablesOf(f)[i])>>

\* C6: error_dim is the trailing dimension of scale_tril_inv and the
\* trailing dimension of what compute_error returns.
ErrorDimConsistent ==
    (op = "compute_error" /\ Len(args.values) = Len(VariablesOf(f)) /\ ret.status = "ok") =>
        /\ error_dim(f) = TrailingDim(Attr(f, "scale_tril_inv").arr)
        /\ error_dim(f) = TrailingDim(ret.value)

\* C7: compute_error and compute_error_jacobians raise when the number of
\* values is not the number of connected variables.
ArityMismatchFatal ==
    (/\ op \in {"compute_error", "compute_error_jacobians"}
     /\ Len(args.values) # Len(VariablesOf(f)))
        => ret.status = "raise"

\* C8: unflatten raises when the number of children is not the number of
\* numeric field names flatten recorded.
CountMismatchFatal ==
    (op = "unflatten" /\ Len(args.children) # Len(NumericNames(f))) => ret.status = "raise"

\* C9: no call changes the factor: its variables, its scale_tril_inv and
\* every other field stay as constructed.
FactorImmutable == [][f' = f]_vars

\* flatten returned, without "variables" among the field names it recorded,
\* for a factor that still has its two variables
FlattenedCase ==
    /\ op = "flatten"
    /\ ret.status = "ok"
    /\ \A i \in 1..Len(ret.treedef) : ret.treedef[i] # Str("variables")
    /\ Len(VariablesOf(f)) = 2
    /\ VariablesOf(f)[1].num = 1
    /\ VariablesOf(f)[2].num = 2

\* C10: the factor rebuilt from what flatten(f) returned has the group key
\* of f.
GroupKeySurvives ==
    (RoundTripped /\ ret.status = "ok") => group_key(ret.factor) = group_key(f)

\* a factor with two variables of different classes and dimensions was rebuilt
RebuiltCase ==
    /\ RoundTripped
    /\ ret.status = "ok"
    /\ Len(VariablesOf(f)) = 2
    /\ VariablesOf(f)[1].str = "R1"
    /\ VariablesOf(f)[2].str = "P2"
    /\ VariablesOf(ret.factor)[1].num = 0

====
